---- MODULE Spec2Model ----
(***************************************************************************)
(* The users service of device-monitor: the gin handlers of package api    *)
(* (HealthCheck, GetUser, CreateUser, UpdateUser, DeleteUser) over one     *)
(* PostgreSQL table, users(id, name, email, created_at, updated_at).       *)
(*                                                                         *)
(* A handler parses its inputs, issues exactly one SQL statement and maps   *)
(* the result to a status.  The statement is the only place where it       *)
(* touches shared state, so a handler is one atomic step, taken at the     *)
(* moment its statement runs.  Spec is the service as the sequence of the  *)
(* handled requests; SpecRace keeps the requests in flight from dispatch   *)
(* to answer, to tell which of them were concurrent.                       *)
(*                                                                         *)
(* Strings that the code inspects (the id path segment, the email) are     *)
(* sequences of one-character strings.  Timestamps are readings of the     *)
(* database clock, a natural number that never runs backwards.             *)
(***************************************************************************)
EXTENDS Integers, Sequences, FiniteSets, Bags

\* ------------------------------------------------------------------ bounds
MaxId == 2          \* values the id sequence hands out
MaxTime == 2        \* readings of the database clock
MaxRacing == 3      \* requests in flight at once

\* ------------------------------------------------------------------ inputs
\* Path segments: integers, written as Atoi accepts them, and others.
IntegerIds ==
  [ s \in { <<"1">>, <<"0", "2">>, <<"-", "1">> } |->
      CASE s = <<"1">> -> 1 [] s = <<"-", "1">> -> 0 - 1 [] OTHER -> 2 ]

NonIntegerIds == { <<"1", "x">>, <<"-">> }

IdStrs == DOMAIN IntegerIds \cup NonIntegerIds

\* Email addresses, and strings that are none.
AdaEmail == <<"a", "@", "b", ".", "c">>
BobEmail == <<"b", "@", "c">>
MalformedEmails == { <<"a", "b", ".", "c">> }

\* JSON bodies: an object with some of the fields name and email, or text
\* that is no JSON.
NoBody == [json |-> FALSE]

ValidBodies ==
  { [json |-> TRUE, name |-> "Ada", email |-> AdaEmail],
    [json |-> TRUE, name |-> "Bob", email |-> BobEmail] }

MissingName == { [json |-> TRUE, email |-> AdaEmail] }

MalformedEmail == { [json |-> TRUE, name |-> "Ada", email |-> m] : m \in MalformedEmails }

Bodies ==
  ValidBodies \cup MissingName \cup MalformedEmail
    \cup { NoBody }

NoId == << >>

\* The requests the router hands to the handlers (routes.go).
HealthCheckRequests == { [op |-> "HealthCheck", id |-> NoId, body |-> NoBody] }

GetUserRequests == { [op |-> "GetUser", id |-> s, body |-> NoBody] : s \in IdStrs }

CreateUserRequests == { [op |-> "CreateUser", id |-> NoId, body |-> b] : b \in Bodies }

UpdateUserRequests ==
  { [op |-> "UpdateUser", id |-> s, body |-> b] : s \in IdStrs, b \in Bodies }

DeleteUserRequests == { [op |-> "DeleteUser", id |-> s, body |-> NoBody] : s \in IdStrs }

Requests ==
  HealthCheckRequests \cup GetUserRequests \cup CreateUserRequests
    \cup UpdateUserRequests \cup DeleteUserRequests

\* ------------------------------------------------------------------- state
VARIABLES
  users,      \* the rows of the users table: <<id, name, email, created_at, updated_at>>
  seq,        \* last value handed out by the id sequence of users.id
  now,        \* the database clock, as NOW() reads it
  dbUp,       \* the pool reaches the database
  inflight,   \* bag of the requests dispatched and not yet answered
  resp,       \* the response written last; its field scenario records that
              \* it answers a GetUser for the id of the response right before
              \* it ("roundTrip" after a 201 CreateUser, "afterDelete" after a
              \* 200 DeleteUser)
  created,    \* history: the ids returned by successful CreateUser, in order
  race        \* history, per id: the answers to the DeleteUser requests that
              \* were in flight while a row with that id was in the table

vars == <<users, seq, now, dbUp, inflight, resp, created, race>>

\* ------------------------------------------------------------ strconv.Atoi
Digit(c) ==
  CASE c = "0" -> 0 [] c = "1" -> 1 [] c = "2" -> 2 [] c = "3" -> 3
    [] c = "4" -> 4 [] c = "5" -> 5 [] c = "6" -> 6 [] c = "7" -> 7
    [] c = "8" -> 8 [] c = "9" -> 9 [] OTHER -> -1

RECURSIVE Decimal(_)
Decimal(s) ==
  IF s = << >> THEN 0
  ELSE 10 * Decimal(SubSeq(s, 1, Len(s) - 1)) + Digit(s[Len(s)])

AtoiLenient(s) ==
  LET ds == SelectSeq(s, LAMBDA c : Digit(c) >= 0)
  IN  [err |-> FALSE, n |-> Decimal(ds)]

\* An optional sign, then one or more decimal digits; anything else is an error.
Atoi(s) ==
  LET signed == s # << >> /\ s[1] \in {"+", "-"}
      ds == IF signed THEN Tail(s) ELSE s
  IN  IF ds = << >> \/ \E i \in 1..Len(ds) : Digit(ds[i]) < 0
        THEN [err |-> TRUE, n |-> 0]
        ELSE [err |-> FALSE,
              n |-> IF signed /\ s[1] = "-" THEN 0 - Decimal(ds) ELSE Decimal(ds)]

\* --------------------------------------------- ShouldBindJSON and its tags
\* binding:"email": one "@" with a non-empty local part and domain around it.
IsEmail(e) ==
  \E i \in 2..(Len(e) - 1) :
    /\ e[i] = "@"
    /\ \A j \in 1..Len(e) : j # i => e[j] # "@"

Field(body, f, zero) == IF f \in DOMAIN body THEN body[f] ELSE zero

BindJSONUnchecked(body) ==
  [err |-> ~body.json, Name |-> Field(body, "name", ""),
   Email |-> Field(body, "email", << >>)]

\* Decode into the struct (an absent field keeps its zero value), then
\* validate: name required, email required and a valid address.
BindJSON(body) ==
  LET Name == Field(body, "name", "")
      Email == Field(body, "email", << >>)
  IN  [err |-> ~body.json \/ Name = "" \/ Email = << >> \/ ~IsEmail(Email),
       Name |-> Name, Email |-> Email]

\* What the handlers get from the inputs at hand: strconv.Atoi(c.Param("id"))
\* and c.ShouldBindJSON(&body), tabulated.
ParsedId == [ s \in IdStrs |-> Atoi(s) ]

BoundBody == [ b \in Bodies |-> BindJSON(b) ]

\* --------------------------------------------------------------- type User
NoUser == [ID |-> 0, Name |-> "", Email |-> << >>, CreatedAt |-> 0, UpdatedAt |-> 0]

\* Scan(&user.ID, &user.Name, &user.Email, &user.CreatedAt, &user.UpdatedAt)
Scan(row) ==
  [ID |-> row[1], Name |-> row[2], Email |-> row[3],
   CreatedAt |-> row[4], UpdatedAt |-> row[5]]

\* ------------------------------------------------------------ the database
\* A call on the pool fails (err # nil, nothing executed) when the database
\* is unreachable or the context deadline passes first.
Failed(slow) == ~dbUp \/ slow

\* nextval of the sequence behind users.id
NextVal == seq + 1

SelectByIdNoWhere(id) == users

\* SELECT ... FROM users WHERE id = $1
SelectById(id) == { r \in users : r[1] = id }

\* QueryRow: the first row of the result
FirstRow(rows) == CHOOSE r \in rows : \A q \in rows : r[1] <= q[1]

InsertedRowCountingId(name, email) == <<Cardinality(users) + 1, name, email, now, now>>

InsertedRowNoUpdatedAt(name, email) == <<NextVal, name, email, now, 0>>

\* INSERT INTO users (name, email, created_at, updated_at)
\* VALUES ($1, $2, NOW(), NOW()): the id is the column's default
InsertedRow(name, email) == <<NextVal, name, email, now, now>>

UpdatedRowTouchingCreatedAt(row, name, email) == <<row[1], name, email, now, now>>

\* UPDATE users SET name = $1, email = $2, updated_at = NOW()
UpdatedRow(row, name, email) == <<row[1], name, email, row[4], now>>

DeletedRowsNoWhere(id) == users

\* DELETE FROM users WHERE id = $1
DeletedRows(id) == { r \in users : r[1] = id }

\* ------------------------------------------------- results to HTTP statuses
HealthStatusAlwaysOk(failed) == IF failed THEN 200 ELSE 200

HealthStatus(failed) == IF failed THEN 503 ELSE 200

RowStatusNoRowsUnchecked(failed, rows) ==
  IF failed \/ rows = {} THEN 500 ELSE 200

\* GetUser and UpdateUser: pgx.ErrNoRows is 404, any other error 500
RowStatus(failed, rows) ==
  IF failed THEN 500 ELSE IF rows = {} THEN 404 ELSE 200

DeleteStatusCountUnchecked(failed, rowsAffected) ==
  IF failed THEN 500 ELSE 200

DeleteStatus(failed, rowsAffected) ==
  IF failed THEN 500 ELSE IF rowsAffected = 0 THEN 404 ELSE 200

\* ------------------------------------------------------------------- steps
Scenario(r, id) ==
  IF r.op = "GetUser" /\ resp.id = id /\ resp.op = "CreateUser" /\ resp.status = 201
    THEN "roundTrip"
    ELSE IF r.op = "GetUser" /\ resp.id = id /\ resp.op = "DeleteUser" /\ resp.status = 200
      THEN "afterDelete"
      ELSE ""

\* c.JSON(status, ...)
Answer(r, status, message, id, user) ==
  resp' = [op |-> r.op, status |-> status, message |-> message,
           id |-> id, user |-> user, scenario |-> Scenario(r, id)]

Init ==
  /\ users = {}
  /\ seq = 0
  /\ now = 1
  /\ dbUp = TRUE
  /\ inflight = EmptyBag
  /\ resp = [op |-> "none", status |-> 0, message |-> "", id |-> 0, user |-> NoUser,
             scenario |-> ""]
  /\ created = << >>
  /\ race = [i \in 1..MaxId |-> [ok |-> 0, notFound |-> 0, failed |-> 0]]

\* Each handler is given the request r and slow, whether its call on the pool
\* outlasts the context deadline.
HealthCheck(r, slow) ==
  LET st == HealthStatus(Failed(slow))
  IN  /\ r.op = "HealthCheck"
      /\ Answer(r, st, IF st = 200 THEN "healthy" ELSE "unhealthy", 0, NoUser)
      /\ UNCHANGED <<users, seq, now, dbUp, created>>

GetUser(r, slow) ==
  LET a == ParsedId[r.id]
      rows == SelectById(a.n)
      st == RowStatus(Failed(slow), rows)
  IN  /\ r.op = "GetUser"
      /\ IF a.err
           THEN Answer(r, 400, "Invalid user ID", 0, NoUser)
           ELSE IF st = 200
             THEN Answer(r, 200, "", a.n, Scan(FirstRow(rows)))
             ELSE Answer(r, st, IF st = 404 THEN "User not found" ELSE "Failed to fetch user",
                         a.n, NoUser)
      /\ UNCHANGED <<users, seq, now, dbUp, created>>

CreateUser(r, slow) ==
  LET b == BoundBody[r.body]
      row == InsertedRow(b.Name, b.Email)
  IN  /\ r.op = "CreateUser"
      /\ IF b.err
           THEN /\ Answer(r, 400, "binding", 0, NoUser)
                /\ UNCHANGED <<users, seq, created>>
           ELSE IF Failed(slow)
             THEN /\ Answer(r, 500, "Failed to create user", 0, NoUser)
                  /\ UNCHANGED <<users, seq, created>>
             ELSE /\ seq < MaxId
                  /\ users' = users \cup {row}
                  /\ seq' = NextVal
                  /\ created' = Append(created, row[1])
                  /\ Answer(r, 201, "User created successfully", row[1], Scan(row))
      /\ UNCHANGED <<now, dbUp>>

UpdateUser(r, slow) ==
  LET a == ParsedId[r.id]
      b == BoundBody[r.body]
      rows == SelectById(a.n)
      st == RowStatus(Failed(slow), rows)
      new == { UpdatedRow(q, b.Name, b.Email) : q \in rows }
  IN  /\ r.op = "UpdateUser"
      /\ IF a.err
           THEN /\ Answer(r, 400, "Invalid user ID", 0, NoUser)
                /\ UNCHANGED users
           ELSE IF b.err
             THEN /\ Answer(r, 400, "binding", a.n, NoUser)
                  /\ UNCHANGED users
             ELSE IF st = 200
               THEN /\ users' = (users \ rows) \cup new
                    /\ Answer(r, 200, "User updated successfully", a.n, Scan(FirstRow(new)))
               ELSE /\ Answer(r, st, IF st = 404 THEN "User not found" ELSE "Failed to update user",
                              a.n, NoUser)
                    /\ UNCHANGED users
      /\ UNCHANGED <<seq, now, dbUp, created>>

DeleteUser(r, slow) ==
  LET a == ParsedId[r.id]
      failed == Failed(slow)
      gone == IF failed THEN {} ELSE DeletedRows(a.n)
      st == DeleteStatus(failed, Cardinality(gone))
  IN  /\ r.op = "DeleteUser"
      /\ IF a.err
           THEN /\ Answer(r, 400, "Invalid user ID", 0, NoUser)
                /\ UNCHANGED users
           ELSE /\ users' = users \ gone
                /\ Answer(r, st,
                          IF st = 200 THEN "User deleted successfully"
                          ELSE IF st = 404 THEN "User not found" ELSE "Failed to delete user",
                          a.n, NoUser)
      /\ UNCHANGED <<seq, now, dbUp, created>>

\* The database clock advances.
Tick ==
  /\ now < MaxTime
  /\ now' = now + 1
  /\ UNCHANGED <<users, seq, dbUp, inflight, resp, created, race>>

\* The database becomes unreachable, and reachable again.
Disconnect ==
  /\ dbUp
  /\ dbUp' = FALSE
  /\ UNCHANGED <<users, seq, now, inflight, resp, created, race>>

Reconnect ==
  /\ ~dbUp
  /\ dbUp' = TRUE
  /\ UNCHANGED <<users, seq, now, inflight, resp, created, race>>

\* The service as a sequence of handled requests: every order in which the
\* statements of any requests, concurrent or not, can run.
Next ==
  \/ \E r \in HealthCheckRequests, slow \in BOOLEAN :
       HealthCheck(r, slow) /\ UNCHANGED <<inflight, race>>
  \/ \E r \in GetUserRequests, slow \in BOOLEAN :
       GetUser(r, slow) /\ UNCHANGED <<inflight, race>>
  \/ \E r \in CreateUserRequests, slow \in BOOLEAN :
       CreateUser(r, slow) /\ UNCHANGED <<inflight, race>>
  \/ \E r \in UpdateUserRequests, slow \in BOOLEAN :
       UpdateUser(r, slow) /\ UNCHANGED <<inflight, race>>
  \/ \E r \in DeleteUserRequests, slow \in BOOLEAN :
       DeleteUser(r, slow) /\ UNCHANGED <<inflight, race>>
  \/ Tick
  \/ Disconnect
  \/ Reconnect

Spec == Init /\ [][Next]_vars

\* ------------------------------------------------------ requests in flight
\* The race of deletes: clients create users and delete them, several
\* requests in flight at once and handled in any order.  An in-flight
\* request e is [req, live]: live records, for a DeleteUser, that the row with
\* its id had not been deleted yet when the request was dispatched.  The
\* request is in the race for the row if it is live and is handled after the
\* row was created.
Targets(r, i) == r.op = "DeleteUser" /\ ~ParsedId[r.id].err /\ ParsedId[r.id].n = i

Created(i) == \E k \in 1..Len(created) : created[k] = i

Live(r) ==
  \E i \in 1..MaxId : Targets(r, i) /\ ~(Created(i) /\ SelectById(i) = {})

Tally(e, st) ==
  IF e.live /\ Created(ParsedId[e.req.id].n)
    THEN [race EXCEPT ![ParsedId[e.req.id].n] =
            [ok |-> @.ok + (IF st = 200 THEN 1 ELSE 0),
             notFound |-> @.notFound + (IF st = 404 THEN 1 ELSE 0),
             failed |-> IF st \in {200, 404} THEN @.failed ELSE 1]]
    ELSE race

RaceRequests ==
  { r \in Requests :
      \/ r.op = "DeleteUser" /\ r.id \in { <<"1">>, <<"0", "2">> }
      \/ r.op = "CreateUser" /\ r.body = [json |-> TRUE, name |-> "Ada", email |-> AdaEmail] }

\* The router hands a request to its handler.
Dispatch(r) ==
  /\ BagCardinality(inflight) < MaxRacing
  /\ inflight' = inflight (+) SetToBag({[req |-> r, live |-> Live(r)]})
  /\ UNCHANGED <<users, seq, now, dbUp, resp, created, race>>

RaceCreate(e, slow) ==
  /\ CreateUser(e.req, slow)
  /\ inflight' = inflight (-) SetToBag({e})
  /\ UNCHANGED race

RaceDelete(e, slow) ==
  /\ DeleteUser(e.req, slow)
  /\ inflight' = inflight (-) SetToBag({e})
  /\ race' = Tally(e, resp'.status)

RaceNext ==
  \/ \E r \in RaceRequests : Dispatch(r)
  \/ \E e \in DOMAIN inflight, slow \in BOOLEAN : RaceCreate(e, slow)
  \/ \E e \in DOMAIN inflight, slow \in BOOLEAN : RaceDelete(e, slow)
  \/ Disconnect
  \/ Reconnect

SpecRace == Init /\ [][RaceNext]_vars

\* ------------------------------------------------------------------ claims
\* What a request asks for is read off the request itself: IntegerIds gives
\* the integer a path segment denotes, ValidBodies, MissingName and
\* MalformedEmail sort the bodies.
HasId(r) == r.id \in DOMAIN IntegerIds

IdOf(r) == IntegerIds[r.id]

RowsWithId(i) == { q \in users : q[1] = i }

ByIdRequests == GetUserRequests \cup UpdateUserRequests \cup DeleteUserRequests

ByIdStep(r, slow) ==
  CASE r.op = "GetUser" -> GetUser(r, slow)
    [] r.op = "UpdateUser" -> UpdateUser(r, slow)
    [] OTHER -> DeleteUser(r, slow)

\* The GetUser and DeleteUser requests, and the UpdateUser requests with a
\* valid body, for an integer id.
IntegerIdRequests ==
  { r \in ByIdRequests : HasId(r) /\ (r.op = "UpdateUser" => r.body \in ValidBodies) }

NonIntegerIdRequests == { r \in ByIdRequests : r.id \in NonIntegerIds }

InvalidBodyRequests ==
  { r \in CreateUserRequests \cup UpdateUserRequests :
      r.body \in MissingName \cup MalformedEmail }

\* The operations a response can name, and the requests of a set S that ask
\* for operation o.
Ops == { "none" } \cup { r.op : r \in Requests }

IntegerIdRequestsOf == [o \in Ops |-> { r \in IntegerIdRequests : r.op = o }]

NonIntegerIdRequestsOf == [o \in Ops |-> { r \in NonIntegerIdRequests : r.op = o }]

InvalidBodyRequestsOf == [o \in Ops |-> { r \in InvalidBodyRequests : r.op = o }]

\* One of them is handled while no row has its id.
OnAbsentId(r, slow) ==
  /\ resp'.op = r.op
  /\ RowsWithId(IdOf(r)) = {}
  /\ ByIdStep(r, slow)

\* C1, as claimed: GetUser, UpdateUser (valid body) and DeleteUser on an
\* integer id that matches no row answer 404, never 500, in every state.
C1_AlwaysNotFound ==
  [][\A r \in IntegerIdRequestsOf[resp'.op], slow \in BOOLEAN :
       OnAbsentId(r, slow) => resp'.status = 404]_vars

\* C1, amended: on an integer id that matches no row they answer 404 when
\* the statement executes and 500 when the call on the pool fails (database
\* unreachable, deadline passed); they answer nothing else and the table is
\* unchanged.
C1_NotFoundUnlessQueryFails ==
  [][\A r \in IntegerIdRequestsOf[resp'.op], slow \in BOOLEAN :
       \/ /\ resp'.status = IF ~dbUp \/ slow THEN 500 ELSE 404
          /\ users' = users
       \/ ~OnAbsentId(r, slow)]_vars

C1_Witness ==
  /\ resp.op = "UpdateUser"
  /\ resp.status = 404
  /\ RowsWithId(resp.id) = {}
  /\ users # {}

\* C2: CreateUser and UpdateUser with a body that misses name or has a
\* malformed email answer 400 and leave the users table as it was.
C2_InvalidBodyRejected ==
  [][\/ resp'.status = 400 /\ users' = users
     \/ \A r \in InvalidBodyRequestsOf[resp'.op], slow \in BOOLEAN :
          ~ /\ resp'.op = r.op
            /\ IF r.op = "CreateUser" THEN CreateUser(r, slow) ELSE UpdateUser(r, slow)]_vars

C2_Witness ==
  /\ resp.op = "UpdateUser"
  /\ resp.status = 400
  /\ resp.message = "binding"
  /\ RowsWithId(resp.id) # {}

\* C3: GetUser, UpdateUser and DeleteUser with an id path segment that is
\* no integer answer 400, whatever the body, the table and the database, and
\* leave the users table as it was.
C3_NonIntegerIdRejected ==
  [][\/ resp'.status = 400 /\ users' = users
     \/ \A r \in NonIntegerIdRequestsOf[resp'.op], slow \in BOOLEAN :
          ~ /\ resp'.op = r.op
            /\ ByIdStep(r, slow)]_vars

C3_Witness ==
  /\ resp.op = "DeleteUser"
  /\ resp.status = 400
  /\ resp.message = "Invalid user ID"
  /\ ~dbUp
  /\ users # {}

\* A successful UpdateUser of request r.
Updates(r, slow) ==
  /\ resp'.op = "UpdateUser"
  /\ resp'.status = 200
  /\ UpdateUser(r, slow)

\* C4, as claimed: a successful UpdateUser leaves the row with an updated_at
\* strictly greater than before, and with the created_at and id it had.
C4_UpdatedAtStrictlyGreater ==
  [][resp'.op = "UpdateUser" /\ resp'.status = 200 =>
     \A r \in UpdateUserRequests, slow \in BOOLEAN :
       Updates(r, slow) =>
         \A old \in RowsWithId(IdOf(r)) :
           \E q \in users' : q[1] = old[1] /\ q[4] = old[4] /\ q[5] > old[5]]_vars

\* C4, amended: a successful UpdateUser sets the row's updated_at to the
\* database clock's reading at the statement, which is not less than the
\* updated_at before (and equal to it when the clock has not advanced since
\* the row was written); created_at and id are as before, and no other row
\* changes.
C4_UpdatedAtIsNow ==
  [][resp'.op = "UpdateUser" /\ resp'.status = 200 =>
     \A r \in UpdateUserRequests, slow \in BOOLEAN :
       Updates(r, slow) =>
         /\ RowsWithId(IdOf(r)) # {}
         /\ \A old \in RowsWithId(IdOf(r)) :
              /\ \E q \in users' :
                   /\ q[1] = old[1] /\ q[4] = old[4]
                   /\ q[5] = now /\ q[5] >= old[5]
                   /\ resp'.user = Scan(q)
              /\ \A q \in users' : q[1] = old[1] => q[4] = old[4] /\ q[5] = now
         /\ \A q \in users : q[1] # IdOf(r) => q \in users'
         /\ { q[1] : q \in users' } = { q[1] : q \in users }]_vars

C4_Witness ==
  /\ resp.op = "UpdateUser"
  /\ resp.status = 200
  /\ resp.user.UpdatedAt > resp.user.CreatedAt
  /\ Scan(CHOOSE q \in users : q[1] = resp.id) = resp.user

\* C5: the id a successful CreateUser returns differs from the id of every
\* earlier successful CreateUser; so the ids of the rows in the table are
\* pairwise distinct, each of them was returned by a CreateUser, and the id
\* of a deleted row is not assigned again.
C5_IdsNeverReused ==
  /\ \A i, j \in 1..Len(created) : i # j => created[i] # created[j]
  /\ \A p, q \in users : p[1] = q[1] => p = q
  /\ \A q \in users : \E i \in 1..Len(created) : created[i] = q[1]

C5_Witness ==
  /\ resp.op = "CreateUser"
  /\ resp.status = 201
  /\ Len(created) = 2
  /\ Cardinality(users) = 1

\* C6: every row of the table has created_at <= updated_at, and the row a
\* successful CreateUser returns has created_at = updated_at.
C6_CreatedBeforeUpdated ==
  /\ \A q \in users : q[4] <= q[5]
  /\ resp.op = "CreateUser" /\ resp.status = 201 =>
       /\ resp.user.CreatedAt = resp.user.UpdatedAt
       /\ resp.user.CreatedAt >= 1

C6_Witness ==
  /\ resp.op = "CreateUser"
  /\ resp.status = 201
  /\ \E q \in users : q[4] < q[5]

Racing(i) == { e \in DOMAIN inflight : e.live /\ Targets(e.req, i) }

====
